---- MODULE Spec2Model ----
(***************************************************************************)
(* Model of the TDS fitting notebook book/content/task10.ipynb: the        *)
(* reference generation cells, the error function and the Nelder-Mead      *)
(* minimisation cell.                                                      *)
(*                                                                         *)
(* Real numbers are exact rationals <<n, d>> with d > 0 and gcd(n, d) = 1. *)
(* The rounding of binary floating point is not modelled.                  *)
(***************************************************************************)
EXTENDS Integers, Sequences, FiniteSets, TLC

(***************************************************************************)
(* Bounds of the model.                                                    *)
(***************************************************************************)
\* largest magnitude of a candidate component
MaxParam == 1
\* largest number of error_function calls the optimizer makes in a run
MaxCalls == 2
\* largest magnitude of one surface flux sample of a notebook run
MaxFlux == 1
\* largest magnitude of a standard normal draw, in units of the scale
MaxDraw == 1
\* largest abscissa of a series handed to a single evaluation
MaxT == 3
\* largest number of samples of a series handed to a single evaluation
MaxSimLen == 3
\* largest magnitude of a reference value handed to a single evaluation
MaxRefVal == 1
\* largest cap on the calls and iterations of a run of the simplex search
MaxFev == 6
\* largest excess of a small time step over dt_min, in tenths of dt_min
MaxStepTenths == 3
\* largest number of iterations of a transient run that is followed
MaxSteps == 2
\* largest number of solves of one time step that do not converge
MaxRetries == 1

(***************************************************************************)
(* Exact rational arithmetic.                                              *)
(***************************************************************************)
Abs(n) == IF n < 0 THEN -n ELSE n

RECURSIVE Gcd(_, _)
Gcd(a, b) == IF b = 0 THEN a ELSE Gcd(b, a % b)

Lcm(a, b) == (a \div Gcd(a, b)) * b

Norm(n, d) ==
    LET s == IF d < 0 THEN -1 ELSE 1
        g == Gcd(Abs(n), Abs(d))
    IN  <<(s * n) \div g, (s * d) \div g>>

Rat(n) == <<n, 1>>
RZero == Rat(0)
RAdd(a, b) ==
    LET l == Lcm(a[2], b[2])
    IN  Norm(a[1] * (l \div a[2]) + b[1] * (l \div b[2]), l)
RNeg(a) == <<-a[1], a[2]>>
RSub(a, b) == RAdd(a, RNeg(b))
RMul(a, b) ==
    LET g1 == Gcd(Abs(a[1]), b[2])
        g2 == Gcd(Abs(b[1]), a[2])
    IN  Norm((a[1] \div g1) * (b[1] \div g2), (a[2] \div g2) * (b[2] \div g1))
\* a / b for b # 0
RDiv(a, b) == RMul(a, Norm(b[2], b[1]))
RAbs(a) == <<Abs(a[1]), a[2]>>
\* a < b: by the whole parts, and by the fractions when these are equal
RLess(a, b) ==
    LET fa == a[1] \div a[2]
        fb == b[1] \div b[2]
        l == Lcm(a[2], b[2])
    IN  IF fa # fb THEN fa < fb
        ELSE (a[1] % a[2]) * (l \div a[2]) < (b[1] % b[2]) * (l \div b[2])
RLeq(a, b) == a = b \/ RLess(a, b)

RECURSIVE RSum(_)
RSum(s) == IF s = <<>> THEN RZero ELSE RAdd(Head(s), RSum(Tail(s)))

RECURSIVE RMinSeq(_)
\* the least element of a non-empty sequence of rationals
RMinSeq(s) ==
    IF Len(s) = 1 THEN s[1]
    ELSE LET m == RMinSeq(Tail(s))
         IN  IF RLess(m, s[1]) THEN m ELSE s[1]

RECURSIVE RMaxSeq(_)
\* the largest element of a non-empty sequence of rationals
RMaxSeq(s) ==
    IF Len(s) = 1 THEN s[1]
    ELSE LET m == RMaxSeq(Tail(s))
         IN  IF RLess(s[1], m) THEN m ELSE s[1]

(***************************************************************************)
(* Sequences of numbers.                                                   *)
(***************************************************************************)
\* the strictly increasing sequences of length k over the integers vals
Grids(k, vals) ==
    {g \in [1..k -> vals] : \A j \in 1..(k - 1) : g[j] < g[j + 1]}

\* np.array(a) + np.array(b), elementwise
ArrAdd(a, b) == [j \in 1..Len(a) |-> RAdd(a[j], b[j])]
\* -np.array(a), elementwise
ArrNeg(a) == [j \in 1..Len(a) |-> RNeg(a[j])]
ArrSub(a, b) == [j \in 1..Len(a) |-> RSub(a[j], b[j])]
ArrAbs(a) == [j \in 1..Len(a) |-> RAbs(a[j])]
\* a.mean(): the sum over the number of elements
ArrMean(a) == RDiv(RSum(a), Rat(Len(a)))
\* the column c of a two-column table
Column(t, c) == [j \in 1..Len(t) |-> t[j][c]]

(***************************************************************************)
(* The forward simulator TDS(n, E_p).  The FESTIM solve is external: a     *)
(* call either raises or returns derived quantities with three channels   *)
(* of equal length, the temperature being strictly increasing.             *)
(***************************************************************************)
NoData == [T |-> <<>>, left |-> <<>>, right |-> <<>>]

\* every series the simulator may return for the given lengths and values
SimOutputs(lens, tvals, lvals, rvals) ==
    UNION {{[T |-> [j \in 1..k |-> Rat(g[j])],
             left |-> [j \in 1..k |-> Rat(l[j])],
             right |-> [j \in 1..k |-> Rat(r[j])]] :
               g \in Grids(k, tvals), l \in [1..k -> lvals], r \in [1..k -> rvals]} :
           k \in lens}

\* the outcomes of a call of TDS: a raised failure, or returned quantities
TDSFailure == [ok |-> FALSE, dq |-> NoData]
TDSOutcomes(outputs) == {TDSFailure} \cup {[ok |-> TRUE, dq |-> d] : d \in outputs}

\* res.filter(fields="T").data
FilterT(d) == d.T

\* ramp = 5 (K/s) and the temperature 300 K at t = 0
ramp == 5
StartTemperature == 300
\* synthetic_TDS.T = 300 + ramp * (F.t)
TempAt(t) == RAdd(Rat(StartTemperature), RMul(Rat(ramp), t))

\* F.Stepsize(..., dt_min=1e-6): the size below which the run fails after a
\* solve that did not converge
dt_min == <<1, 1000000>>

RECURSIVE TimesOf(_)
\* the times the quantities are exported at, for the steps dts: the end of
\* every step
TimesOf(dts) ==
    IF dts = <<>> THEN <<>>
    ELSE LET before == TimesOf(SubSeq(dts, 1, Len(dts) - 1))
         IN  Append(before,
                    RAdd(IF before = <<>> THEN RZero ELSE before[Len(before)],
                         dts[Len(dts)]))
\* F.Stepsize(initial_value=0.01, stepsize_change_ratio=1.2, ...)
initial_value == <<1, 100>>
stepsize_change_ratio == <<6, 5>>
\* None, as max_stepsize returns it: no ceiling
None == <<>>
\* a variant whose ceiling is lifted at t >= 1 instead of t < 1
max_stepsize_late(t) == IF RLess(t, Rat(1)) THEN Rat(1) ELSE None
\* max_stepsize=lambda t: None if t < 1 else 1
max_stepsize(t) == IF RLess(t, Rat(1)) THEN None ELSE Rat(1)
\* F.Settings(..., final_time=140, maximum_iterations=50)
final_time == 140
maximum_iterations == 50
\* the Newton solves a step size is raised after take fewer iterations
\* than this
FewIterations == 5

\* what one Newton solve of a time step reports: the number of its
\* iterations and whether it converged within maximum_iterations
SolveOutcomes ==
    {[nb_it |-> 1, converged |-> TRUE],
     [nb_it |-> FewIterations, converged |-> TRUE],
     [nb_it |-> maximum_iterations, converged |-> FALSE]}

\* Stepsize.adapt(t, nb_it, converged) on the step size v: a solve that did
\* not converge divides v by the ratio and raises when that is below dt_min;
\* then v is multiplied by the ratio after fewer than five iterations and
\* divided by it otherwise; then the ceiling of the time t applies
adapt(v, t, nb_it, converged) ==
    LET v1 == IF converged THEN v ELSE RDiv(v, stepsize_change_ratio)
        v2 == IF nb_it < FewIterations
              THEN RMul(v1, stepsize_change_ratio)
              ELSE RDiv(v1, stepsize_change_ratio)
        top == max_stepsize(t)
        v3 == IF top # None /\ RLess(top, v2) THEN top ELSE v2
    IN  IF ~converged /\ RLess(v1, dt_min)
        THEN [raised |-> TRUE, value |-> v1]
        ELSE [raised |-> FALSE, value |-> v3]

\* the relative tolerance of np.isclose
IsCloseRtol == <<1, 100000>>
\* np.isclose(t, final_time, atol=0): |t - final_time| <= rtol * final_time
IsCloseToFinal(t) ==
    LET tol == RMul(IsCloseRtol, Rat(final_time))
    IN  /\ RLeq(RSub(Rat(final_time), tol), t)
        /\ RLeq(t, RAdd(Rat(final_time), tol))
\* while self.t < final_time and not np.isclose(self.t, final_time, atol=0)
RunCondition(t) == RLess(t, Rat(final_time)) /\ ~IsCloseToFinal(t)
\* the step size at the end of an iteration: it is cut so that the next
\* step ends at final_time
AvoidPastFinal(v, t) ==
    IF RLess(Rat(final_time), RAdd(t, v)) /\ ~IsCloseToFinal(t)
    THEN RSub(Rat(final_time), t)
    ELSE v

\* res.filter(fields="solute", surfaces=s).data
FilterFlux(d, s) == IF s = 1 THEN d.left ELSE d.right

(***************************************************************************)
(* The reference generation cell: total flux, noise and the file.          *)
(***************************************************************************)
\* reference_prms = [1e-2, 1.0]
reference_prms == <<<<1, 100>>, <<1, 1>>>>

\* flux_total = -(np.array(flux_left) + np.array(flux_right))
flux_total(d) == ArrNeg(ArrAdd(FilterFlux(d, 1), FilterFlux(d, 2)))

\* the fraction 0.05 of the noise scale
NoiseFraction == <<1, 20>>

\* the scale argument of np.random.normal(0, 0.05 * max(flux_total), ...)
NormalScale(ft) == RMul(NoiseFraction, RMaxSeq(ft))

\* np.random.normal with a scale below zero raises ValueError
NormalRaises(scale) == RLess(scale, RZero)

\* the draws of np.random.normal(0, scale, n) for standard draws z
NormalDraws(scale, z) == [j \in 1..Len(z) |-> RMul(scale, Rat(z[j]))]

\* the number of decimals "%f" prints
FmtDecimals == 6
RECURSIVE Pow10(_)
Pow10(k) == IF k = 0 THEN 1 ELSE 10 * Pow10(k - 1)

RECURSIVE LongDiv(_, _, _)
\* <<f, r>>: the first k decimals f of r / d, as a whole number, and the
\* remainder r left after them (0 <= r < d)
LongDiv(r, d, k) ==
    IF k = 0 THEN <<0, r>>
    ELSE LET h == LongDiv(r, d, k - 1)
         IN  <<10 * h[1] + (10 * h[2]) \div d, (10 * h[2]) % d>>

\* fmt="%f": the value rounded to six decimals (ties to even), held as the
\* integer number of 1e-6 units the decimal text spells
FormatF(x) ==
    LET h == LongDiv(x[1] % x[2], x[2], FmtDecimals)
        f == (x[1] \div x[2]) * Pow10(FmtDecimals) + h[1]
    IN  IF 2 * h[2] > x[2] THEN f + 1
        ELSE IF 2 * h[2] = x[2] THEN f + (f % 2)
        ELSE f

\* genfromtxt: the number a decimal field spells
ParseField(k) == Norm(k, Pow10(FmtDecimals))

\* np.savetxt("Noisy_TDS.csv", np.column_stack([T, noisy_flux]), fmt="%f")
Savetxt(T, noisy) == [j \in 1..Len(T) |-> <<FormatF(T[j]), FormatF(noisy[j])>>]

\* np.genfromtxt("Noisy_TDS.csv", delimiter=";")
Genfromtxt(f) == [j \in 1..Len(f) |-> <<ParseField(f[j][1]), ParseField(f[j][2])>>]

(***************************************************************************)
(* interp1d(T, flux, fill_value="extrapolate"), kind "linear".             *)
(* The simulated abscissa arrives sorted (T = 300 + 5 t), so the argsort   *)
(* of interp1d leaves the series as it is.                                 *)
(***************************************************************************)
\* np.searchsorted(x, v), side "left": the number of entries below v
SearchSorted(x, v) == Cardinality({j \in 1..Len(x) : RLess(x[j], v)})

\* np.clip
Clip(v, lo, hi) == IF v < lo THEN lo ELSE IF v > hi THEN hi ELSE v

\* a variant that holds the latest sample at or below the new abscissa
\* (kind="previous") instead of joining the samples by lines
InterpPrevious(x, y, xn) ==
    y[Clip(Cardinality({j \in 1..Len(x) : RLeq(x[j], xn)}), 1, Len(x))]

\* a variant that measures the offset from the upper end of the segment
InterpFromUpper(x, y, xn) ==
    LET hi0 == Clip(SearchSorted(x, xn), 1, Len(x) - 1)
        lo == hi0
        hi == hi0 + 1
        slope == RDiv(RSub(y[hi], y[lo]), RSub(x[hi], x[lo]))
    IN  RAdd(RMul(slope, RSub(xn, x[hi])), y[lo])

\* a variant that extends the end samples flatly (fill_value=(first, last))
InterpFlat(x, y, xn) ==
    IF RLess(xn, x[1]) THEN y[1]
    ELSE IF RLess(x[Len(x)], xn) THEN y[Len(x)]
    ELSE LET hi0 == Clip(SearchSorted(x, xn), 1, Len(x) - 1)
             lo == hi0
             hi == hi0 + 1
             slope == RDiv(RSub(y[hi], y[lo]), RSub(x[hi], x[lo]))
         IN  RAdd(RMul(slope, RSub(xn, x[lo])), y[lo])

\* the linear evaluation at one new abscissa: the segment is found by
\* searchsorted and clipped into the series, so the end segments extrapolate
InterpLinear(x, y, xn) ==
    LET hi0 == Clip(SearchSorted(x, xn), 1, Len(x) - 1)
        lo == hi0
        hi == hi0 + 1
        slope == RDiv(RSub(y[hi], y[lo]), RSub(x[hi], x[lo]))
    IN  RAdd(RMul(slope, RSub(xn, x[lo])), y[lo])

\* a variant without fill_value="extrapolate": interp1d then raises
\* ValueError for a new abscissa outside the range of the series
interp_tds_bounds_error(x, y, xs) ==
    IF \E j \in 1..Len(xs) : RLess(xs[j], x[1]) \/ RLess(x[Len(x)], xs[j])
    THEN [raised |-> TRUE, y |-> <<>>]
    ELSE [raised |-> FALSE,
          y |-> [j \in 1..Len(xs) |->
                   LET hi0 == Clip(SearchSorted(x, xs[j]), 1, Len(x) - 1)
                   IN  RAdd(RMul(RDiv(RSub(y[hi0 + 1], y[hi0]),
                                      RSub(x[hi0 + 1], x[hi0])),
                                 RSub(xs[j], x[hi0])), y[hi0])]]

\* interp_tds(ref[:, 0]): with fill_value="extrapolate" no bounds error is
\* raised and every new abscissa gets a value
interp_tds(x, y, xs) ==
    [raised |-> FALSE, y |-> [j \in 1..Len(xs) |-> InterpLinear(x, y, xs[j])]]

(***************************************************************************)
(* error_function(prm).                                                    *)
(***************************************************************************)
\* the sentinel 1e30 of the source, which no loss of the model reaches (the
\* integers of the checker end below it)
Sentinel == 1000000
\* the sentinel with its sign lost
SentinelLossNegated == RSub(RZero, Rat(Sentinel))
SentinelLoss == Rat(Sentinel)

Returned(v) == [kind |-> "returned", val |-> v]
Raised == [kind |-> "raised", val |-> RZero]

\* a variant that also rejects a zero component (e <= 0)
AnyNonPositive(prm) == \E k \in 1..Len(prm) : RLeq(prm[k], RZero)

\* any([e < 0 for e in prm])
AnyNegative(prm) == \E k \in 1..Len(prm) : RLess(prm[k], RZero)

\* a variant with the sign of surface 2 lost on removing the parenthesis
flux_sign_slip(d) == ArrAdd(ArrNeg(FilterFlux(d, 1)), FilterFlux(d, 2))

\* flux = -np.array(left) - np.array(right)
flux(d) == ArrSub(ArrNeg(FilterFlux(d, 1)), FilterFlux(d, 2))

\* a variant without np.abs: the mean of the signed differences
MeanSignedError(y, r) == ArrMean(ArrSub(y, Column(r, 2)))

\* err = np.abs(interp_tds(ref[:, 0]) - ref[:, 1]).mean()
MeanAbsError(y, r) == ArrMean(ArrAbs(ArrSub(y, Column(r, 2))))

\* a variant that counts only the calls that pass the feasibility check
IncrementIfFeasible(prm) ==
    IF \E k \in 1..Len(prm) : RLess(prm[k], RZero) THEN 0 ELSE 1

\* i += 1 is reached by every call, before the candidate is looked at
Increment(prm) == 1

\* a variant that catches the failure and hands back the sentinel
OnTDSFailureSentinel(prm) == [tds |-> 1, ret |-> Returned(SentinelLoss)]

\* res = TDS(n, Ep) stands in no try block: a failure of the simulator
\* leaves error_function as the exception, after the one invocation
OnTDSFailure(prm) == [tds |-> 1, ret |-> Raised]

\* What one call does, given the candidate, the outcome o the simulator has
\* for it, the reference r and the counter i0 at entry:
\*   inc       what is added to the counter i
\*   reported  the index info prints
\*   sim       whether TDS was not called ("none"), returned or raised
\*   tds       the number of TDS invocations of the call
\*   ret       the value returned, or the exception raised
\*   appended  whether errors.append(err) was reached
\*   aligned   interp_tds(ref[:, 0])
Evaluate(prm, o, r, i0) ==
    LET entry == [prm |-> prm, inc |-> Increment(prm),
                  reported |-> i0 + Increment(prm),
                  sim |-> "none", tds |-> 0, ret |-> Returned(SentinelLoss),
                  appended |-> FALSE, aligned |-> <<>>]
    IN  IF AnyNegative(prm) THEN entry
        ELSE IF ~o.ok
        THEN [entry EXCEPT !.sim = "raised",
                           !.tds = OnTDSFailure(prm).tds,
                           !.ret = OnTDSFailure(prm).ret]
        ELSE LET it == interp_tds(FilterT(o.dq), flux(o.dq), Column(r, 1))
             IN  IF it.raised
                 THEN [entry EXCEPT !.sim = "returned", !.tds = 1, !.ret = Raised]
                 ELSE [entry EXCEPT !.sim = "returned", !.tds = 1,
                                    !.ret = Returned(MeanAbsError(it.y, r)),
                                    !.appended = TRUE, !.aligned = it.y]

(***************************************************************************)
(* minimize(error_function, x0, method="Nelder-Mead", options={"disp":     *)
(* True, "fatol": fatol, "xatol": xatol}): the simplex search of scipy.    *)
(* maxiter and maxfev are not passed, so both get the same default, 200    *)
(* per dimension; the search is modelled with both set to one cap.         *)
(***************************************************************************)
\* xatol = 1e-3
xatol == <<1, 1000>>
\* the coefficients of reflection, expansion, contraction and shrink
rho == 1
chi == 2
psi == <<1, 2>>
sigma == <<1, 2>>
\* the relative step of a non-zero coordinate of the initial simplex, and
\* the step of a zero coordinate
nonzdelt == <<1, 20>>
zdelt == <<1, 4000>>
\* fsim = np.full((N + 1,), np.inf): a value above every loss
Inf == Rat(2 * Sentinel)

\* no point
NoPoint == <<0, 0>>

\* arithmetic on points
PAdd(a, b) == [c \in 1..Len(a) |-> RAdd(a[c], b[c])]
PSub(a, b) == [c \in 1..Len(a) |-> RSub(a[c], b[c])]
PScale(s, a) == [c \in 1..Len(a) |-> RMul(s, a[c])]

\* sim[0] = x0, and sim[k + 1] = x0 with coordinate k stepped
InitialSimplex(x0) ==
    <<x0>> \o
    [k \in 1..Len(x0) |->
        [c \in 1..Len(x0) |->
            IF c # k THEN x0[c]
            ELSE IF x0[c] # RZero THEN RMul(RAdd(Rat(1), nonzdelt), x0[c])
            ELSE zdelt]]

\* np.argsort(fsim): the indices by rising value, equal values in the order
\* they stand
ArgSort(f) ==
    LET pos(j) == 1 + Cardinality({m \in 1..Len(f) :
                       RLess(f[m], f[j]) \/ (f[m] = f[j] /\ m < j)})
    IN  [p \in 1..Len(f) |-> CHOOSE j \in 1..Len(f) : pos(j) = p]

\* sim = np.take(sim, ind, 0); fsim = np.take(fsim, ind, 0)
Sorted(n) ==
    LET ind == ArgSort(n.fsim)
    IN  [n EXCEPT !.sim = [p \in 1..Len(ind) |-> n.sim[ind[p]]],
                  !.fsim = [p \in 1..Len(ind) |-> n.fsim[ind[p]]]]

\* np.max(np.ravel(np.abs(sim[1:] - sim[0])))
XSpread(s) ==
    RMaxSeq([q \in 1..(2 * (Len(s) - 1)) |->
                RAbs(RSub(s[2 + ((q - 1) \div 2)][1 + ((q - 1) % 2)],
                          s[1][1 + ((q - 1) % 2)]))])
\* np.max(np.abs(fsim[0] - fsim[1:]))
FSpread(f) == RMaxSeq([j \in 1..(Len(f) - 1) |-> RAbs(RSub(f[1], f[j + 1]))])

\* a variant that stops as soon as one of the two spreads is small
ConvergedEither(n) ==
    RLeq(XSpread(n.sim), n.xatol) \/ RLeq(FSpread(n.fsim), n.fatol)

\* the test that breaks the loop: both spreads within their tolerances
Converged(n) ==
    RLeq(XSpread(n.sim), n.xatol) /\ RLeq(FSpread(n.fsim), n.fatol)

\* a variant of the wrapper that lets one call too many through
MaxFunExceeded(n) == n.fcalls > n.maxfun

\* the wrapper of the objective raises _MaxFuncCallError instead of calling
\* it once maxfun calls were made
MaxFunReached(n) == n.fcalls >= n.maxfun

\* while (fcalls[0] < maxfun and iterations < maxiter)
LoopCondition(n) == n.fcalls < n.maxfun /\ n.iterations < n.maxiter

\* the locals at the entry of the search
NMEntry(x0, xa, fa, cap) ==
    [phase |-> "init", sim |-> InitialSimplex(x0),
     fsim |-> [k \in 1..(Len(x0) + 1) |-> Inf], k |-> 1,
     iterations |-> 0, fcalls |-> 0, maxiter |-> cap, maxfun |-> cap,
     xatol |-> xa, fatol |-> fa,
     xbar |-> NoPoint, xr |-> NoPoint, fxr |-> RZero, x |-> NoPoint]

\* xbar = np.add.reduce(sim[:-1], 0) / N
Centroid(s) == PScale(<<1, Len(s) - 1>>, PAdd(s[1], s[2]))
\* xr = (1 + rho) * xbar - rho * sim[-1]
Reflected(n) ==
    PSub(PScale(Rat(1 + rho), Centroid(n.sim)), PScale(Rat(rho), n.sim[3]))
\* xe = (1 + rho * chi) * xbar - rho * chi * sim[-1]
Expanded(n) ==
    PSub(PScale(Rat(1 + rho * chi), n.xbar), PScale(Rat(rho * chi), n.sim[3]))
\* xc = (1 + psi * rho) * xbar - psi * rho * sim[-1]
Contracted(n) ==
    PSub(PScale(RAdd(Rat(1), RMul(psi, Rat(rho))), n.xbar),
         PScale(RMul(psi, Rat(rho)), n.sim[3]))
\* xcc = (1 - psi) * xbar + psi * sim[-1]
ContractedInside(n) ==
    PAdd(PScale(RSub(Rat(1), psi), n.xbar), PScale(psi, n.sim[3]))
\* sim[j] = sim[0] + sigma * (sim[j] - sim[0])
Shrunk(n, j) == PAdd(n.sim[1], PScale(sigma, PSub(n.sim[j], n.sim[1])))

\* the end of a pass through the loop body: iterations += 1, and the finally
\* clause sorts the simplex
EndIteration(n) ==
    Sorted([n EXCEPT !.iterations = @ + 1, !.phase = "loop"])
\* sim[-1] = x; fsim[-1] = fx
Accept(n, x, fx) == [n EXCEPT !.sim[3] = x, !.fsim[3] = fx]
\* the shrink loop reaches vertex j: it is moved, then evaluated
ShrinkTo(n, j) ==
    [n EXCEPT !.phase = "shrink", !.k = j, !.sim[j] = Shrunk(n, j),
              !.x = Shrunk(n, j)]

\* the locals after the objective returned fx for the point n.x
AfterValue(n0, fx) ==
    LET n == [n0 EXCEPT !.fcalls = @ + 1]
    IN  CASE n.phase = "init" ->
                IF n.k = Len(n.sim)
                THEN Sorted([n EXCEPT !.fsim[n.k] = fx, !.phase = "loop",
                                      !.iterations = 1])
                ELSE [n EXCEPT !.fsim[n.k] = fx, !.k = @ + 1,
                               !.x = n.sim[n.k + 1]]
          [] n.phase = "reflect" ->
                IF RLess(fx, n.fsim[1])
                THEN [n EXCEPT !.fxr = fx, !.phase = "expand",
                               !.x = Expanded(n)]
                ELSE IF RLess(fx, n.fsim[2])
                THEN EndIteration(Accept(n, n.xr, fx))
                ELSE IF RLess(fx, n.fsim[3])
                THEN [n EXCEPT !.fxr = fx, !.phase = "contract",
                               !.x = Contracted(n)]
                ELSE [n EXCEPT !.fxr = fx, !.phase = "inside",
                               !.x = ContractedInside(n)]
          [] n.phase = "expand" ->
                IF RLess(fx, n.fxr)
                THEN EndIteration(Accept(n, n.x, fx))
                ELSE EndIteration(Accept(n, n.xr, n.fxr))
          [] n.phase = "contract" ->
                IF RLeq(fx, n.fxr)
                THEN EndIteration(Accept(n, n.x, fx))
                ELSE ShrinkTo(n, 2)
          [] n.phase = "inside" ->
                IF RLess(fx, n.fsim[3])
                THEN EndIteration(Accept(n, n.x, fx))
                ELSE ShrinkTo(n, 2)
          [] n.phase = "shrink" ->
                IF n.k = Len(n.sim)
                THEN EndIteration([n EXCEPT !.fsim[n.k] = fx])
                ELSE ShrinkTo([n EXCEPT !.fsim[n.k] = fx], n.k + 1)

\* the locals after the wrapper raised _MaxFuncCallError: the except clause
\* passes, the finally clause sorts; after the initial simplex iterations is
\* set to 1
AfterMaxFun(n) ==
    IF n.phase = "init"
    THEN Sorted([n EXCEPT !.phase = "loop", !.iterations = 1])
    ELSE Sorted([n EXCEPT !.phase = "loop"])

\* warnflag: 1 for maxfev, 2 for maxiter, 0 for success
WarnFlag(n) ==
    IF n.fcalls >= n.maxfun THEN 1
    ELSE IF n.iterations >= n.maxiter THEN 2
    ELSE 0

(***************************************************************************)
(* The state of the notebook.                                              *)
(***************************************************************************)
VARIABLES
    pc,          \* the cell, or the step of a cell, that runs next
    data,        \* data = TDS(*reference_prms)
    noise,       \* the call of np.random.normal: its scale and its draws
    file,        \* the rows of Noisy_TDS.csv
    ref,         \* ref = np.genfromtxt("Noisy_TDS.csv")
    prms,        \* the candidates recorded by error_function
    errors,      \* the losses recorded by error_function
    i,           \* the iteration counter
    out,         \* what info and error_function printed
    tds_calls,   \* the number of invocations of TDS so far
    calls,       \* the calls of error_function of this run, as Evaluate gives them
    res,         \* the derived quantities the latest call received from TDS
    res_x,       \* res.x of the result minimize returned
    res_report,  \* the other fields of the result: fun, nit, nfev, status
    res_reads,   \* the fields of the result the notebook has read
    predicted_data, \* predicted_data = TDS(*res.x)
    tds_log,     \* the arguments of the invocations of TDS, in call order
    fileops,     \* the operations on Noisy_TDS.csv, in the order they ran
    earlier,     \* what an earlier run of the generation cells left behind
    nm,          \* the locals of the Nelder-Mead search while it runs
    stepper      \* the time and the step size of a transient run of TDS

vars == <<pc, data, noise, file, ref, prms, errors, i, out, tds_calls, calls,
          res, res_x, res_report, res_reads, predicted_data, tds_log, fileops,
          earlier, nm, stepper>>

\* initial_guess = [2e-2, 1.1]
initial_guess == <<<<1, 50>>, <<11, 10>>>>
\* the candidates (n, E_p) the search may propose: the initial guess and the
\* points with whole components
Candidates ==
    {initial_guess} \cup {<<Rat(a), Rat(b)>> : a, b \in -MaxParam..MaxParam}

NoNoise == [called |-> FALSE, scale |-> RZero, values |-> <<>>]
\* no result of minimize yet
NoReport == [fun |-> RZero, nit |-> 0, nfev |-> 0, status |-> -1]
\* no earlier run of the generation cells
NoEarlier == [written |-> FALSE, data |-> NoData, file |-> <<>>]
\* the search is not running
NoNM == [phase |-> "idle"]
\* no transient run is followed
NoStepper == [status |-> "idle"]

\* the series of a notebook run: two samples at the abscissae 0 and 1
RunOutputs == SimOutputs(2..2, 0..1, -MaxFlux..MaxFlux, 0..0)
RunOutcomes == TDSOutcomes(RunOutputs)
\* the series handed to a single evaluation
EvalOutputs == SimOutputs(2..MaxSimLen, 0..MaxT, -MaxFlux..0, 0..MaxFlux)
EvalOutcomes == TDSOutcomes(EvalOutputs)

(***************************************************************************)
(* The cells of the notebook, in the order they stand.                     *)
(***************************************************************************)
Init ==
    /\ pc = "reference"
    /\ data = NoData
    /\ noise = NoNoise
    /\ file = <<>>
    /\ ref = <<>>
    /\ prms = <<>>
    /\ errors = <<>>
    /\ i = 0
    /\ out = <<>>
    /\ tds_calls = 0
    /\ calls = <<>>
    /\ res = NoData
    /\ res_x = NoPoint
    /\ res_report = NoReport
    /\ res_reads = {}
    /\ predicted_data = NoData
    /\ tds_log = <<>>
    /\ fileops = <<>>
    /\ earlier = NoEarlier
    /\ stepper = NoStepper
    /\ nm = NoNM

\* a variant that invokes TDS a second time when the first invocation fails
RunReferenceRetry(o) ==
    /\ pc = "reference"
    /\ tds_calls' = IF o.ok THEN tds_calls + 1 ELSE tds_calls + 2
    /\ tds_log' = IF o.ok THEN Append(tds_log, reference_prms)
                  ELSE tds_log \o <<reference_prms, reference_prms>>
    /\ IF o.ok
       THEN data' = o.dq /\ pc' = "noise"
       ELSE data' = data /\ pc' = "aborted"
    /\ UNCHANGED <<noise, file, ref, prms, errors, i, out, calls, res, res_x,
                   res_report, res_reads, predicted_data, fileops, earlier, nm,
                   stepper>>

\* data = TDS(*reference_prms)
RunReference(o) ==
    /\ pc = "reference"
    /\ tds_calls' = tds_calls + 1
    /\ tds_log' = Append(tds_log, reference_prms)
    /\ IF o.ok
       THEN data' = o.dq /\ pc' = "noise"
       ELSE data' = data /\ pc' = "aborted"
    /\ UNCHANGED <<noise, file, ref, prms, errors, i, out, calls, res, res_x,
                   res_report, res_reads, predicted_data, fileops, earlier, nm,
                   stepper>>

\* the noise cell: flux_total, noise, noisy_flux and np.savetxt; z are the
\* standard draws of the generator
AddNoise(z) ==
    /\ pc = "noise"
    /\ LET T == FilterT(data)
           ft == flux_total(data)
           scale == NormalScale(ft)
       IN  IF NormalRaises(scale)
           THEN /\ noise' = [called |-> TRUE, scale |-> scale, values |-> <<>>]
                /\ file' = file
                /\ fileops' = fileops
                /\ pc' = "aborted"
           ELSE LET nz == NormalDraws(scale, z)
                    noisy_flux == ArrAdd(ft, nz)
                IN  /\ noise' = [called |-> TRUE, scale |-> scale, values |-> nz]
                    /\ file' = Savetxt(T, noisy_flux)
                    /\ fileops' = Append(fileops, "savetxt")
                    /\ pc' = "load"
    /\ UNCHANGED <<data, ref, prms, errors, i, out, tds_calls, calls, res, res_x,
                   res_report, res_reads, predicted_data, tds_log, earlier, nm,
                   stepper>>

\* ref = np.genfromtxt("Noisy_TDS.csv", delimiter=";")
LoadReference ==
    /\ pc = "load"
    /\ ref' = Genfromtxt(file)
    /\ fileops' = Append(fileops, "genfromtxt")
    /\ pc' = "define"
    /\ UNCHANGED <<data, noise, file, prms, errors, i, out, tds_calls, calls,
                   res, res_x, res_report, res_reads, predicted_data, tds_log,
                   earlier, nm, stepper>>

\* prms = []; errors = []; def error_function
DefineErrorFunction ==
    /\ pc = "define"
    /\ prms' = <<>>
    /\ errors' = <<>>
    /\ pc' = "start"
    /\ UNCHANGED <<data, noise, file, ref, i, out, tds_calls, calls, res, res_x,
                   res_report, res_reads, predicted_data, tds_log, fileops,
                   earlier, nm, stepper>>

\* i = 0, and minimize is entered
StartMinimize ==
    /\ pc = "start"
    /\ i' = 0
    /\ calls' = <<>>
    /\ pc' = "minimize"
    /\ UNCHANGED <<data, noise, file, ref, prms, errors, out, tds_calls, res,
                   res_x, res_report, res_reads, predicted_data, tds_log,
                   fileops, earlier, nm, stepper>>

\* a / b rounded to the nearest whole number, ties to the even one (a >= 0,
\* b > 0)
RoundHalfEven(a, b) ==
    LET q == a \div b
        r == a % b
    IN  IF 2 * r > b THEN q + 1
        ELSE IF 2 * r = b THEN q + (q % 2)
        ELSE q

RECURSIVE Digits(_)
\* the number of decimal digits of a whole number n >= 1
Digits(n) == IF n < 10 THEN 1 ELSE 1 + Digits(n \div 10)

RECURSIVE ShiftUp(_, _)
\* the least k with a * 10^k >= d (0 < a < d)
ShiftUp(a, d) == IF a >= d THEN 0 ELSE 1 + ShiftUp(10 * a, d)

\* the number of decimals of the mantissa ".2e" prints
ExpDecimals == 2

\* f"{err:.2e}": the mantissa m, in hundredths and rounded ties to even, and
\* the exponent e of the text, which spells (m / 100) * 10^e
FormatE(x) ==
    IF x[1] = 0 THEN [m |-> 0, e |-> 0]
    ELSE LET a == Abs(x[1])
             d == x[2]
             e == IF a >= d THEN Digits(a \div d) - 1 ELSE -ShiftUp(a, d)
             m == IF e >= 0
                  THEN RoundHalfEven(a * Pow10(ExpDecimals), d * Pow10(e))
                  ELSE RoundHalfEven(a * Pow10(-e) * Pow10(ExpDecimals), d)
             s == IF x[1] < 0 THEN -1 ELSE 1
         IN  IF m = Pow10(ExpDecimals + 1)
             THEN [m |-> s * Pow10(ExpDecimals), e |-> e + 1]
             ELSE [m |-> s * m, e |-> e]

\* the number of decimals str() of a numpy array keeps at most
PrintPrecision == 8

\* one component of f"{p}": the number in units of 1e-8, rounded ties to even
FloatText(x) ==
    LET a == Abs(x[1])
        h == LongDiv(a % x[2], x[2], PrintPrecision)
        f == (a \div x[2]) * Pow10(PrintPrecision) + h[1]
        u == IF 2 * h[2] > x[2] THEN f + 1
             ELSE IF 2 * h[2] = x[2] THEN f + (f % 2)
             ELSE f
    IN  IF x[1] < 0 THEN -u ELSE u

\* f"{p}" of a candidate
PointText(p) == [k \in 1..Len(p) |-> FloatText(p[k])]

\* no number on the line
NoText == [m |-> 0, e |-> 0]

\* what info(i, p) prints: the index and the point
InfoLine(idx, p) ==
    [kind |-> "info", i |-> idx, p |-> PointText(p), err |-> NoText]
\* print(f"Average absolute error is : {err:.2e}")
ErrorLine(e) == [kind |-> "error", i |-> 0, p |-> <<>>, err |-> FormatE(e)]

\* a variant that looks the candidate up among those run before
CacheHitIfSeen(prm, seen) == \E k \in 1..Len(seen) : seen[k] = prm

\* error_function keeps no table of results: prms and errors are written and
\* never read, so no candidate is answered without res = TDS(n, Ep)
CacheHit(prm, seen) == FALSE

\* a variant that loads the reference anew in every call
FileOpsReload(prm) == <<"genfromtxt">>

\* the operations of one call on Noisy_TDS.csv: none, the call reads the
\* global ref
FileOpsOfCall(prm) == <<>>

\* a variant that takes the difference in place: ref[:, 1] -= interp_tds(...)
error_function_in_place(prm, o) ==
    \E c \in {IF CacheHit(prm, prms)
              THEN [Evaluate(prm, o, ref, i) EXCEPT !.tds = 0]
              ELSE Evaluate(prm, o, ref, i)} :
        /\ prms' = Append(prms, prm)
        /\ i' = i + c.inc
        /\ out' = IF c.appended
                  THEN out \o <<InfoLine(c.reported, prm), ErrorLine(c.ret.val)>>
                  ELSE Append(out, InfoLine(c.reported, prm))
        /\ tds_calls' = tds_calls + c.tds
        /\ tds_log' = IF c.tds = 1 THEN Append(tds_log, prm) ELSE tds_log
        /\ fileops' = fileops \o FileOpsOfCall(prm)
        /\ res' = IF c.sim = "returned" THEN o.dq ELSE res
        /\ errors' = IF c.appended THEN Append(errors, c.ret.val) ELSE errors
        /\ calls' = Append(calls, c)
        /\ pc' = IF c.ret.kind = "raised" THEN "aborted" ELSE pc
        /\ ref' = IF c.appended
                  THEN [j \in 1..Len(ref) |->
                           <<ref[j][1], RSub(ref[j][2], c.aligned[j])>>]
                  ELSE ref
        /\ UNCHANGED <<data, noise, file, res_x, res_report, res_reads,
                       predicted_data, earlier, stepper>>

\* one call error_function(prm), the simulator having the outcome o for it
error_function(prm, o) ==
    \E c \in {IF CacheHit(prm, prms)
              THEN [Evaluate(prm, o, ref, i) EXCEPT !.tds = 0]
              ELSE Evaluate(prm, o, ref, i)} :
        /\ prms' = Append(prms, prm)
        /\ i' = i + c.inc
        /\ out' = IF c.appended
                  THEN out \o <<InfoLine(c.reported, prm), ErrorLine(c.ret.val)>>
                  ELSE Append(out, InfoLine(c.reported, prm))
        /\ tds_calls' = tds_calls + c.tds
        /\ tds_log' = IF c.tds = 1 THEN Append(tds_log, prm) ELSE tds_log
        /\ fileops' = fileops \o FileOpsOfCall(prm)
        /\ res' = IF c.sim = "returned" THEN o.dq ELSE res
        /\ errors' = IF c.appended THEN Append(errors, c.ret.val) ELSE errors
        /\ calls' = Append(calls, c)
        /\ pc' = IF c.ret.kind = "raised" THEN "aborted" ELSE pc
        /\ UNCHANGED <<data, noise, file, ref, res_x, res_report, res_reads,
                       predicted_data, earlier, stepper>>

\* minimize(error_function, np.array(initial_guess), method="Nelder-Mead"),
\* seen from outside: the first point the simplex search evaluates is the
\* initial guess, the later ones are points it derives from the simplex
MinimizeCall(prm, o) ==
    /\ pc = "minimize"
    /\ Len(calls) < MaxCalls
    /\ calls = <<>> => prm = initial_guess
    /\ error_function(prm, o)
    /\ UNCHANGED nm

\* the loss of the k-th call of the run
LossOf(k) == calls[k].ret.val

\* minimize returns: res.x is a point of least loss among those evaluated,
\* and the status tells success (0) from the two caps (1, 2)
MinimizeReturn ==
    /\ pc = "minimize"
    /\ calls # <<>>
    /\ \E k \in 1..Len(calls), s \in 0..2 :
          /\ \A m \in 1..Len(calls) : RLeq(LossOf(k), LossOf(m))
          /\ res_x' = calls[k].prm
          /\ res_report' = [fun |-> LossOf(k), nit |-> Len(calls),
                            nfev |-> Len(calls), status |-> s]
    /\ pc' = "post"
    /\ UNCHANGED <<data, noise, file, ref, prms, errors, i, out, tds_calls, calls,
                   res, res_reads, predicted_data, tds_log, fileops, earlier, nm,
                   stepper>>

Next ==
    \/ \E o \in RunOutcomes : RunReference(o)
    \/ \E z \in [1..Len(FilterT(data)) -> -MaxDraw..MaxDraw] : AddNoise(z)
    \/ LoadReference
    \/ DefineErrorFunction
    \/ StartMinimize
    \/ \E prm \in Candidates, o \in RunOutcomes : MinimizeCall(prm, o)
    \/ MinimizeReturn

Spec == Init /\ [][Next]_vars

(***************************************************************************)
(* A single evaluation: the state minimize is entered in, for every       *)
(* reference table the generation cells can leave behind, and the first    *)
(* call of error_function, for every series the simulator may return.      *)
(***************************************************************************)
RefTables ==
    UNION {{[j \in 1..k |-> <<Rat(g[j]), Rat(v[j])>>] :
               g \in Grids(k, 0..MaxT), v \in [1..k -> -MaxRefVal..MaxRefVal]} :
           k \in 2..MaxSimLen}

\* the reference run behind a table: unit desorption on surface 1, and the
\* draws that turn it into the values of the table
DataBehind(t) ==
    [T |-> Column(t, 1),
     left |-> [j \in 1..Len(t) |-> Rat(-1)],
     right |-> [j \in 1..Len(t) |-> RZero]]
NoiseBehind(t) ==
    [called |-> TRUE, scale |-> NormalScale(flux_total(DataBehind(t))),
     values |-> ArrSub(Column(t, 2), flux_total(DataBehind(t)))]

InitEval ==
    /\ pc = "minimize"
    /\ ref \in RefTables
    /\ data = DataBehind(ref)
    /\ noise = NoiseBehind(ref)
    /\ file = Savetxt(Column(ref, 1), Column(ref, 2))
    /\ prms = <<>>
    /\ errors = <<>>
    /\ i = 0
    /\ out = <<>>
    /\ tds_calls = 1
    /\ calls = <<>>
    /\ res = NoData
    /\ res_x = NoPoint
    /\ res_report = NoReport
    /\ res_reads = {}
    /\ predicted_data = NoData
    /\ tds_log = <<reference_prms>>
    /\ fileops = <<"savetxt", "genfromtxt">>
    /\ earlier = NoEarlier
    /\ stepper = NoStepper
    /\ nm = NoNM

NextEval ==
    /\ calls = <<>>
    /\ \E prm \in Candidates, o \in EvalOutcomes : MinimizeCall(prm, o)

SpecEval == InitEval /\ [][NextEval]_vars

(***************************************************************************)
(* The search, step by step, on the state of the notebook.                 *)
(***************************************************************************)
\* one call of the wrapped objective at the point the search has prepared:
\* the wrapper raises when maxfun calls were made, else error_function runs
NMEvaluate(o) ==
    /\ pc = "minimize"
    /\ nm.phase \in {"init", "reflect", "expand", "contract", "inside", "shrink"}
    /\ IF MaxFunReached(nm)
       THEN /\ nm' = AfterMaxFun(nm)
            /\ UNCHANGED <<pc, data, noise, file, ref, prms, errors, i, out,
                           tds_calls, calls, res, res_x, res_report, res_reads,
                           predicted_data, tds_log, fileops, earlier,
                           stepper>>
       ELSE /\ error_function(nm.x, o)
            /\ nm' = IF calls'[Len(calls')].ret.kind = "returned"
                     THEN AfterValue(nm, calls'[Len(calls')].ret.val)
                     ELSE [nm EXCEPT !.fcalls = @ + 1]

\* the loop goes on: the test for convergence fails, and the worst vertex is
\* reflected through the centroid of the others
NMIterate ==
    /\ pc = "minimize"
    /\ nm.phase = "loop"
    /\ LoopCondition(nm)
    /\ ~Converged(nm)
    /\ nm' = [nm EXCEPT !.phase = "reflect", !.xbar = Centroid(nm.sim),
                        !.xr = Reflected(nm), !.x = Reflected(nm)]
    /\ UNCHANGED <<pc, data, noise, file, ref, prms, errors, i, out, tds_calls,
                   calls, res, res_x, res_report, res_reads, predicted_data,
                   tds_log, fileops, earlier, stepper>>

\* the loop ends, by the break or by a cap, and minimize returns the
\* OptimizeResult
NMReturn ==
    /\ pc = "minimize"
    /\ nm.phase = "loop"
    /\ ~LoopCondition(nm) \/ Converged(nm)
    /\ res_x' = nm.sim[1]
    /\ res_report' = [fun |-> RMinSeq(nm.fsim), nit |-> nm.iterations,
                      nfev |-> nm.fcalls, status |-> WarnFlag(nm)]
    /\ nm' = [nm EXCEPT !.phase = "returned"]
    /\ pc' = "post"
    /\ UNCHANGED <<data, noise, file, ref, prms, errors, i, out, tds_calls, calls,
                   res, res_reads, predicted_data, tds_log, fileops, earlier,
                   stepper>>

\* a variant that runs the prediction through the recording of
\* error_function
PredictRecorded(o) ==
    /\ pc = "post"
    /\ res_reads' = res_reads \cup {"x"}
    /\ tds_calls' = tds_calls + 1
    /\ tds_log' = Append(tds_log, res_x)
    /\ prms' = Append(prms, res_x)
    /\ i' = i + 1
    /\ IF o.ok
       THEN predicted_data' = o.dq /\ pc' = "done"
       ELSE predicted_data' = predicted_data /\ pc' = "aborted"
    /\ UNCHANGED <<data, noise, file, ref, errors, out, calls, res,
                   res_x, res_report, fileops, earlier, nm, stepper>>

\* predicted_data = TDS(*res.x): the one field read of the result is x
Predict(o) ==
    /\ pc = "post"
    /\ res_reads' = res_reads \cup {"x"}
    /\ tds_calls' = tds_calls + 1
    /\ tds_log' = Append(tds_log, res_x)
    /\ IF o.ok
       THEN predicted_data' = o.dq /\ pc' = "done"
       ELSE predicted_data' = predicted_data /\ pc' = "aborted"
    /\ UNCHANGED <<data, noise, file, ref, prms, errors, i, out, calls, res,
                   res_x, res_report, fileops, earlier, nm, stepper>>

\* the options the search is run with: the xatol of the notebook and a
\* coarse one; a loss tolerance only equal losses meet and one every spread
\* of feasible losses meets (the notebook passes 1e18)
XatolValues == {xatol, <<1, 10>>}
FatolValues == {RZero, Rat(1)}
\* the guess of the notebook and one on the edge of the feasible region
StartPoints == {initial_guess, <<RZero, Rat(1)>>}
\* the reference table of the runs of the search: unit flux at 0 and 1
NMRef == <<<<Rat(0), Rat(1)>>, <<Rat(1), Rat(1)>>>>
\* what TDS may do for a candidate of the search: fail, or return two
\* samples with desorption on surface 1
NMOutcomes ==
    {o \in RunOutcomes :
        o.ok => \A j \in 1..Len(o.dq.left) : RLeq(o.dq.left[j], RZero)}

\* the state minimize is entered in
InitNM ==
    /\ pc = "minimize"
    /\ ref = NMRef
    /\ data = DataBehind(ref)
    /\ noise = NoiseBehind(ref)
    /\ file = Savetxt(Column(ref, 1), Column(ref, 2))
    /\ prms = <<>>
    /\ errors = <<>>
    /\ i = 0
    /\ out = <<>>
    /\ tds_calls = 1
    /\ calls = <<>>
    /\ res = NoData
    /\ res_x = NoPoint
    /\ res_report = NoReport
    /\ res_reads = {}
    /\ predicted_data = NoData
    /\ tds_log = <<reference_prms>>
    /\ fileops = <<"savetxt", "genfromtxt">>
    /\ earlier = NoEarlier
    /\ stepper = NoStepper
    /\ \E x0 \in StartPoints, xa \in XatolValues, fa \in FatolValues,
          cap \in 1..MaxFev :
          nm = [NMEntry(x0, xa, fa, cap) EXCEPT !.x = x0]

NextNM ==
    \/ \E o \in NMOutcomes : NMEvaluate(o)
    \/ NMIterate
    \/ NMReturn
    \/ \E o \in NMOutcomes : Predict(o)

SpecNM == InitNM /\ [][NextNM]_vars

(***************************************************************************)
(* Two runs of the generation cells.  The notebook sets no seed: the draws *)
(* of np.random.normal come from the global generator, which the           *)
(* interpreter seeds anew at every start.  TDS is a function of its        *)
(* arguments, so the second reference run returns what the first did.      *)
(***************************************************************************)
\* the notebook is started again and its cells are run from the top, the
\* file of the run before being kept for comparison
Regenerate ==
    /\ pc = "load"
    /\ ~earlier.written
    /\ earlier' = [written |-> TRUE, data |-> data, file |-> file]
    /\ pc' = "reference"
    /\ data' = NoData
    /\ noise' = NoNoise
    /\ file' = <<>>
    /\ tds_calls' = 0
    /\ tds_log' = <<>>
    /\ fileops' = <<>>
    /\ UNCHANGED <<ref, prms, errors, i, out, calls, res, res_x, res_report,
                   res_reads, predicted_data, nm, stepper>>

\* the reference run of the second pass
RunReferenceAgain ==
    /\ earlier.written
    /\ RunReference([ok |-> TRUE, dq |-> earlier.data])

\* the steps of a solve whose step size has come down to dt_min: the sizes
\* from a tenth of dt_min, which slow solves lead to (adapt divides the
\* step size by the ratio after them without a test against dt_min), to the
\* sizes above dt_min, in tenths of dt_min
SmallSteps == {RMul(<<10 + k, 10>>, dt_min) : k \in -9..MaxStepTenths}

\* the series of a reference run whose steps are small: the temperature at
\* the end of each step, unit desorption on surface 1
SmallStepData ==
    UNION {{[T |-> [j \in 1..n |-> TempAt(TimesOf(dts)[j])],
             left |-> [j \in 1..n |-> Rat(-1)],
             right |-> [j \in 1..n |-> RZero]] : dts \in [1..n -> SmallSteps]} :
           n \in 2..MaxSimLen}

\* the state after a reference run with small steps
InitSmallSteps ==
    /\ pc = "noise"
    /\ data \in SmallStepData
    /\ noise = NoNoise
    /\ file = <<>>
    /\ ref = <<>>
    /\ prms = <<>>
    /\ errors = <<>>
    /\ i = 0
    /\ out = <<>>
    /\ tds_calls = 1
    /\ calls = <<>>
    /\ res = NoData
    /\ res_x = NoPoint
    /\ res_report = NoReport
    /\ res_reads = {}
    /\ predicted_data = NoData
    /\ tds_log = <<reference_prms>>
    /\ fileops = <<>>
    /\ earlier = NoEarlier
    /\ stepper = NoStepper
    /\ nm = NoNM

NextSmallSteps ==
    \/ \E z \in [1..Len(FilterT(data)) -> -MaxDraw..MaxDraw] : AddNoise(z)
    \/ LoadReference

SpecSmallSteps == InitSmallSteps /\ [][NextSmallSteps]_vars

NextRegen ==
    \/ \E o \in RunOutcomes : ~earlier.written /\ RunReference(o)
    \/ \E z \in [1..Len(FilterT(data)) -> -MaxDraw..MaxDraw] : AddNoise(z)
    \/ Regenerate
    \/ RunReferenceAgain

SpecRegen == Init /\ [][NextRegen]_vars

(***************************************************************************)
(* The minimise cell run more than once in one kernel.  prms = [] and      *)
(* errors = [] stand in the cell that defines error_function, i = 0 stands *)
(* in the minimise cell: running the minimise cell again runs i = 0 and    *)
(* minimize, and nothing else.                                             *)
(***************************************************************************)
\* the minimise cell is run again after it ended, by its last statement or
\* by a failure; the notebook is followed for two runs of the cell
RerunMinimize ==
    /\ pc \in {"done", "aborted"}
    /\ Len(prms) = Len(calls)
    /\ i' = 0
    /\ calls' = <<>>
    /\ pc' = "minimize"
    /\ UNCHANGED <<data, noise, file, ref, prms, errors, out, tds_calls, res,
                   res_x, res_report, res_reads, predicted_data, tds_log,
                   fileops, earlier, nm, stepper>>

\* the state after the cell that defines error_function
InitRerun ==
    /\ pc = "start"
    /\ ref = NMRef
    /\ data = DataBehind(ref)
    /\ noise = NoiseBehind(ref)
    /\ file = Savetxt(Column(ref, 1), Column(ref, 2))
    /\ prms = <<>>
    /\ errors = <<>>
    /\ i = 0
    /\ out = <<>>
    /\ tds_calls = 1
    /\ calls = <<>>
    /\ res = NoData
    /\ res_x = NoPoint
    /\ res_report = NoReport
    /\ res_reads = {}
    /\ predicted_data = NoData
    /\ tds_log = <<reference_prms>>
    /\ fileops = <<"savetxt", "genfromtxt">>
    /\ earlier = NoEarlier
    /\ stepper = NoStepper
    /\ nm = NoNM

NextRerun ==
    \/ StartMinimize
    \/ \E prm \in Candidates, o \in NMOutcomes : MinimizeCall(prm, o)
    \/ MinimizeReturn
    \/ \E o \in NMOutcomes : Predict(o)
    \/ RerunMinimize

SpecRerun == InitRerun /\ [][NextRerun]_vars

(***************************************************************************)
(* One transient run of TDS: synthetic_TDS.run() advances the time step by *)
(* step until final_time; every step is solved, again with a smaller step  *)
(* while the solve does not converge, and Stepsize.adapt sets the size of  *)
(* the next step.                                                          *)
(***************************************************************************)
\* everything but the stepper: a run of TDS touches none of it
notebook == <<pc, data, noise, file, ref, prms, errors, i, out, tds_calls,
              calls, res, res_x, res_report, res_reads, predicted_data,
              tds_log, fileops, earlier, nm>>

\* the run at the time t with the step size v, k of its iterations having
\* been followed
StepperAt(t, v, k) ==
    [status |-> "running", t |-> t, dt |-> v, steps |-> k, from |-> t,
     size |-> v, retries |-> 0, grew |-> FALSE]

\* self.t += float(self.dt.value): an iteration begins
Advance ==
    /\ stepper.status = "running"
    /\ RunCondition(stepper.t)
    /\ stepper.steps < MaxSteps
    /\ stepper' = [stepper EXCEPT !.status = "solving",
                                  !.t = RAdd(stepper.t, stepper.dt),
                                  !.from = stepper.t,
                                  !.size = stepper.dt,
                                  !.steps = @ + 1,
                                  !.retries = 0]
    /\ UNCHANGED notebook

\* nb_it, converged = self.solve_once(); dt.adapt(t, nb_it, converged): the
\* step is solved; when the solve converged the iteration ends, else the
\* step is solved again with the size adapt has set
Solve(s) ==
    /\ stepper.status = "solving"
    /\ s.converged \/ stepper.retries < MaxRetries
    /\ LET a == adapt(stepper.dt, stepper.t, s.nb_it, s.converged)
       IN  stepper' =
              IF a.raised
              THEN [stepper EXCEPT !.status = "failed", !.dt = a.value]
              ELSE IF s.converged
              THEN [stepper EXCEPT
                       !.status = "running",
                       !.dt = AvoidPastFinal(a.value, stepper.t),
                       !.grew = s.nb_it < FewIterations]
              ELSE [stepper EXCEPT !.dt = a.value, !.size = a.value,
                                   !.retries = @ + 1]
    /\ UNCHANGED notebook

\* the loop of run() ends: TDS returns derived_quantities
Finish ==
    /\ stepper.status = "running"
    /\ ~RunCondition(stepper.t)
    /\ stepper' = [stepper EXCEPT !.status = "done"]
    /\ UNCHANGED notebook

\* times and step sizes of a run under way: the end of the first step, whole
\* and half seconds before and after the ceiling sets in and near
\* final_time; the sizes 0.01, 0.5 and 1 and sizes near dt_min
StepTimes == {initial_value, <<1, 2>>, Rat(1), Rat(2), Rat(139), <<279, 2>>}
StepSizes ==
    {initial_value, <<1, 2>>, Rat(1), dt_min, RMul(<<6, 5>>, dt_min)}

\* the start of a run, or a run under way: from t >= 1 on the step size is
\* at most 1, and no step ends after final_time; the sizes near dt_min are
\* followed at the end of the first step, where solves that do not converge
\* lead to them
InitStep ==
    /\ pc = "reference"
    /\ data = NoData
    /\ noise = NoNoise
    /\ file = <<>>
    /\ ref = <<>>
    /\ prms = <<>>
    /\ errors = <<>>
    /\ i = 0
    /\ out = <<>>
    /\ tds_calls = 1
    /\ calls = <<>>
    /\ res = NoData
    /\ res_x = NoPoint
    /\ res_report = NoReport
    /\ res_reads = {}
    /\ predicted_data = NoData
    /\ tds_log = <<reference_prms>>
    /\ fileops = <<>>
    /\ earlier = NoEarlier
    /\ nm = NoNM
    /\ \/ stepper = StepperAt(RZero, initial_value, 0)
       \/ \E t \in StepTimes, v \in StepSizes :
             /\ RLeq(RAdd(t, v), Rat(final_time))
             /\ RLess(v, initial_value) <=> t = initial_value
             /\ stepper = StepperAt(t, v, 0)

NextStep ==
    \/ Advance
    \/ \E s \in SolveOutcomes : Solve(s)
    \/ Finish

SpecStep == InitStep /\ [][NextStep]_vars

(***************************************************************************)
(* Properties.                                                             *)
(***************************************************************************)
\* the latest call of error_function of the run
LastCall == calls[Len(calls)]
\* the latest call had a feasible candidate and TDS returned a series for it
Scored == calls # <<>> /\ LastCall.sim = "returned"
\* a candidate with at least one component below zero
HasNegative(p) == RLess(p[1], RZero) \/ RLess(p[2], RZero)

\* the simulated observable of a series: minus the sum of both surface fluxes
Observable(d) == [j \in 1..Len(d.T) |-> RNeg(RAdd(d.left[j], d.right[j]))]
\* the value at x of the line through (x1, y1) and (x2, y2)
LineAt(x1, y1, x2, y2, x) ==
    RAdd(y1, RDiv(RMul(RSub(y2, y1), RSub(x, x1)), RSub(x2, x1)))
\* the segment of the abscissae T that holds x: the one that brackets it,
\* the first one for x before the series and the last one for x past it
SegmentOf(T, x) ==
    IF RLess(x, T[1]) THEN 1
    ELSE IF RLess(T[Len(T)], x) THEN Len(T) - 1
    ELSE CHOOSE k \in 1..(Len(T) - 1) : RLeq(T[k], x) /\ RLeq(x, T[k + 1])
\* the piecewise-linear interpolant S of the series d, at x
Interpolant(d, x) ==
    LET k == SegmentOf(d.T, x)
    IN  LineAt(d.T[k], Observable(d)[k], d.T[k + 1], Observable(d)[k + 1], x)
\* the sum over the reference rows of |v_j - y_j|
SumAbsDiff(v) == RSum([j \in 1..Len(ref) |-> RAbs(RSub(v[j], ref[j][2]))])
\* x lies outside the range of the abscissae T
Outside(T, x) == RLess(x, T[1]) \/ RLess(T[Len(T)], x)

\* C1: a call whose candidate has a negative component returns the sentinel
\* 1e30 without invoking TDS; a call whose components are all >= 0, zero
\* included, invokes TDS.
C1_InfeasibleShortCircuit ==
    \A k \in 1..Len(calls) :
        IF HasNegative(calls[k].prm)
        THEN /\ calls[k].ret = Returned(SentinelLoss)
             /\ calls[k].sim = "none"
             /\ calls[k].tds = 0
        ELSE /\ calls[k].sim # "none"
             /\ calls[k].tds = 1

C1_Witness ==
    /\ Len(calls) = 2
    /\ calls[2].prm = <<Rat(1), Rat(-1)>>
    /\ calls[2].ret = Returned(SentinelLoss)
    /\ calls[1].tds = 1
    /\ tds_calls = 2

\* C2: after completed calls the trajectory holds one (candidate, loss)
\* record per call: len(prms) = len(errors) = i, and errors[k] is the value
\* the call that appended prms[k] returned.
C2_OneRecordPerCall ==
    (\A k \in 1..Len(calls) : calls[k].ret.kind = "returned") =>
        /\ Len(prms) = i
        /\ Len(errors) = i
        /\ \A k \in 1..Len(calls) :
              prms[k] = calls[k].prm /\ errors[k] = calls[k].ret.val

\* C3: every call, the short-circuited ones included, adds exactly 1 to i,
\* so i counts the calls of the run and the k-th call reports index k.
C3_CounterCountsCalls ==
    /\ i = Len(calls)
    /\ \A k \in 1..Len(calls) : calls[k].inc = 1 /\ calls[k].reported = k

C3_Witness ==
    /\ Len(calls) = 2
    /\ HasNegative(calls[2].prm)
    /\ calls[2].reported = 2
    /\ i = 2

\* C4: the loss of a feasible call is the mean over the reference rows of
\* |S(x_j) - y_j|, S the piecewise-linear interpolant of the simulated
\* observable; the divisor is the number of reference rows.
C4_LossIsMeanAbsError ==
    Scored =>
        /\ LastCall.ret.kind = "returned"
        /\ RMul(LastCall.ret.val, Rat(Len(ref))) =
              SumAbsDiff([j \in 1..Len(ref) |-> Interpolant(res, ref[j][1])])

C4_Witness ==
    /\ Scored
    /\ Len(res.T) = 3
    /\ Len(ref) = 2
    /\ \E j \in 1..Len(ref) : \A k \in 1..Len(res.T) : ref[j][1] # res.T[k]
    /\ \E j \in 1..Len(ref) :
          ~Outside(res.T, ref[j][1]) /\ res.T[2] # ref[j][1]
          /\ RLess(res.T[2], ref[j][1])
    /\ RLess(RZero, LastCall.ret.val)

\* C5: the loss of a feasible call is >= 0.
C5_LossNonNegative ==
    Scored => LastCall.ret.kind = "returned" /\ RLeq(RZero, LastCall.ret.val)

C5_Witness ==
    /\ Scored
    /\ \A j \in 1..Len(ref) : RLess(LastCall.aligned[j], ref[j][2])
    /\ RLess(RZero, LastCall.ret.val)

NoOverlap == \A j \in 1..Len(ref) : Outside(res.T, ref[j][1])

\* C7, as stated: when every reference abscissa lies outside the simulated
\* range, error_function aborts with a failure and returns no loss.
C7_AlignmentFailureRaised ==
    (Scored /\ NoOverlap) => LastCall.ret.kind = "raised"

\* C7, amended: when every reference abscissa lies outside the simulated
\* range, error_function raises no failure: it returns the mean absolute
\* difference to the series extended by its end segments, records it in
\* errors, and the run goes on.
C7_NoAlignmentFailure ==
    (Scored /\ NoOverlap) =>
        /\ LastCall.ret.kind = "returned"
        /\ pc = "minimize"
        /\ Len(errors) = 1 /\ errors[1] = LastCall.ret.val
        /\ RMul(LastCall.ret.val, Rat(Len(ref))) =
              SumAbsDiff([j \in 1..Len(ref) |->
                  IF RLess(ref[j][1], res.T[1])
                  THEN LineAt(res.T[1], Observable(res)[1],
                              res.T[2], Observable(res)[2], ref[j][1])
                  ELSE LineAt(res.T[Len(res.T) - 1], Observable(res)[Len(res.T) - 1],
                              res.T[Len(res.T)], Observable(res)[Len(res.T)],
                              ref[j][1])])

C7_Witness ==
    /\ Scored
    /\ NoOverlap
    /\ RLess(ref[1][1], res.T[1])
    /\ RLess(res.T[Len(res.T)], ref[2][1])
    /\ LastCall.ret.kind = "returned"
    /\ RLess(RZero, LastCall.ret.val)

\* C8: for a reference abscissa outside the simulated range the call does
\* not fail: the value used there lies on the line through the two nearest
\* end samples of the series, and a loss is returned.
C8_LinearExtrapolation ==
    Scored =>
        \A j \in 1..Len(ref) :
            LET x == ref[j][1]
                n == Len(res.T)
                f == Observable(res)
            IN  Outside(res.T, x) =>
                    /\ LastCall.ret.kind = "returned"
                    /\ Len(LastCall.aligned) = Len(ref)
                    /\ LastCall.aligned[j] =
                          IF RLess(x, res.T[1])
                          THEN LineAt(res.T[1], f[1], res.T[2], f[2], x)
                          ELSE LineAt(res.T[n - 1], f[n - 1], res.T[n], f[n], x)

C8_Witness ==
    /\ Scored
    /\ Len(res.T) = 3
    /\ RLess(res.T[3], ref[Len(ref)][1])
    /\ ~Outside(res.T, ref[1][1])
    /\ LastCall.aligned[Len(ref)] # Observable(res)[3]
    /\ Observable(res)[1] = Observable(res)[2]
    /\ LastCall.ret.kind = "returned"

\* C9: when TDS fails for a feasible candidate the failure leaves
\* error_function as it is: TDS is invoked once, no loss is returned or
\* recorded, and the run is aborted with no result of minimize.
C9_FailurePropagates ==
    \A k \in 1..Len(calls) :
        calls[k].sim = "raised" =>
            /\ calls[k].ret.kind = "raised"
            /\ calls[k].tds = 1
            /\ ~calls[k].appended
            /\ k = Len(calls)
            /\ pc = "aborted"
            /\ res_x = NoPoint

C9_Witness ==
    /\ Len(calls) = 2
    /\ calls[1].sim = "returned"
    /\ calls[2].sim = "raised"
    /\ ~HasNegative(calls[2].prm)
    /\ tds_calls = 3
    /\ pc = "aborted"

\* C10: the noise is drawn with standard deviation 0.05 x max |value| over
\* the flux series, also for a series that is all negative or all zero.
C10_NoiseScaleIsMaxAbs ==
    noise.called =>
        noise.scale = RMul(<<1, 20>>, RMaxSeq(ArrAbs(Observable(data))))

\* the lines of out that call k printed: the info line with its index and
\* point, and right after it the line with the loss the call returned
ReportsLoss(k) ==
    \E j \in 1..(Len(out) - 1) :
        /\ out[j] = InfoLine(k, calls[k].prm)
        /\ out[j + 1] = ErrorLine(calls[k].ret.val)

\* C15: every call of error_function that returns, with a feasible or an
\* infeasible candidate, printed its iteration index, its candidate and the
\* loss it returned.
C15_EveryCallReported ==
    \A k \in 1..Len(calls) : calls[k].ret.kind = "returned" => ReportsLoss(k)

\* the candidates of the calls of the run, in call order
CallPoints == [k \in 1..Len(calls) |-> calls[k].prm]
Feasible(p) == ~HasNegative(p)

\* C16: no evaluation is answered from a cache: the invocations of TDS made
\* through error_function are, in order, the feasible candidates of the
\* calls, one invocation per feasible call, also for a candidate that an
\* earlier call already ran.
C16_NoCaching ==
    calls # <<>> =>
        /\ tds_log = <<reference_prms>> \o SelectSeq(CallPoints, Feasible)
        /\ tds_calls = Len(tds_log)
        /\ \A k \in 1..Len(calls) : Feasible(calls[k].prm) => calls[k].tds = 1

C16_Witness ==
    /\ Len(calls) = 2
    /\ calls[1].prm = calls[2].prm
    /\ calls[1].sim = "returned"
    /\ calls[2].tds = 1
    /\ tds_log = <<reference_prms, calls[1].prm, calls[1].prm>>

\* C17: a failure of TDS in the reference run ends the generation: TDS is
\* not invoked again, no noise is drawn and no file is written; and when
\* the file is written, TDS had been invoked exactly once before, with
\* reference_prms, and had returned the series the file holds.
C17_GenerationInvokesOnce ==
    /\ (pc = "aborted" /\ data = NoData) =>
          /\ tds_log = <<reference_prms>>
          /\ tds_calls = 1
          /\ ~noise.called
          /\ file = <<>>
          /\ fileops = <<>>
    /\ pc = "load" =>
          /\ tds_log = <<reference_prms>>
          /\ tds_calls = 1
          /\ data # NoData
          /\ Len(file) = Len(FilterT(data))
    /\ file # <<>> => tds_log[1] = reference_prms /\ data # NoData

C17_Witness ==
    /\ pc = "aborted"
    /\ data = NoData
    /\ tds_calls = 1
    /\ file = <<>>

\* the file has just been written after the one reference run
C17_WitnessWritten ==
    /\ pc = "load"
    /\ file # <<>>
    /\ tds_calls = 1

\* C18: the file is written once and then read once, both before the first
\* call of error_function; no call of error_function and no step of the
\* search reads or writes it again, and ref stays what that one read gave.
C18_WrittenOnceReadOnce ==
    /\ fileops \in {<<>>, <<"savetxt">>, <<"savetxt", "genfromtxt">>}
    /\ (calls # <<>> \/ pc \in {"minimize", "post"}) =>
          /\ fileops = <<"savetxt", "genfromtxt">>
          /\ ref = Genfromtxt(file)

C18_Witness ==
    /\ Len(calls) = 2
    /\ calls[1].sim = "returned"
    /\ calls[2].sim = "returned"
    /\ pc = "post"
    /\ fileops = <<"savetxt", "genfromtxt">>

\* C11: two runs of the generation cells with the same reference_prms and
\* the same noise fraction write the same contents to Noisy_TDS.csv.
C11_GenerationDeterministic ==
    (earlier.written /\ pc = "load") => file = earlier.file

HasResult == res_report # NoReport
\* the result reports success
Success == HasResult /\ res_report.status = 0

\* C12: minimize reports success only from a simplex whose spread in
\* parameter space is <= xatol and whose spread of losses is <= fatol, both
\* at once; with only one of the two met it goes on or ends on a cap.
C12_ConvergedMeansBoth ==
    Success =>
        /\ RLeq(XSpread(nm.sim), nm.xatol)
        /\ RLeq(FSpread(nm.fsim), nm.fatol)
        /\ res_x = nm.sim[1]

\* success after the first test of the loop had failed on the losses alone
C12_Witness ==
    /\ Success
    /\ res_report.nit >= 2
    /\ nm.fatol = RZero
    /\ RLeq(XSpread(InitialSimplex(prms[1])), nm.xatol)
    /\ errors[1] # errors[2]

\* the search ended without a result
EndedWithoutResult == pc = "aborted" /\ ~HasResult

\* C13, as stated: with the cap N the search calls error_function at most N
\* times, always returns a result, and reports no success when the cap is
\* reached before both tolerances are met.
C13_CapAlwaysReturns ==
    /\ nm.phase # "idle" => Len(calls) <= nm.maxfun
    /\ ~EndedWithoutResult
    /\ (HasResult /\ ~LoopCondition(nm) /\ ~Converged(nm)) => ~Success

\* the steps the search can still take before it ends: three for every call
\* the cap still allows, and the steps that need no call
StepsLeft ==
    IF pc # "minimize" THEN 0
    ELSE 3 * (IF nm.maxfun > nm.fcalls THEN nm.maxfun - nm.fcalls ELSE 0)
         + (IF nm.phase = "loop" THEN 2
            ELSE IF MaxFunReached(nm) THEN 3
            ELSE 1)

\* one of the steps of the search can be taken: an evaluation is pending, or
\* the loop goes on, or the loop ends
CanStep ==
    \/ nm.phase \in {"init", "reflect", "expand", "contract", "inside", "shrink"}
    \/ nm.phase = "loop" /\ LoopCondition(nm) /\ ~Converged(nm)
    \/ nm.phase = "loop" /\ (~LoopCondition(nm) \/ Converged(nm))

\* what holds in every state of a search with the cap
C13_CapInvariant ==
    /\ nm.phase # "idle" => Len(calls) <= nm.maxfun /\ nm.fcalls = Len(calls)
    /\ EndedWithoutResult => calls # <<>> /\ LastCall.ret.kind = "raised"
    /\ (HasResult /\ ~LoopCondition(nm) /\ ~Converged(nm)) => ~Success
    /\ pc = "minimize" => CanStep

\* C13, amended: with the cap N the search calls error_function at most N
\* times and always ends (in every state it can take a step, and every step
\* leaves fewer steps to take): it returns a result, unless a call of
\* error_function raises, in which case that failure ends it; and a result
\* returned on the cap before both tolerances are met reports no success.
C13_CapBoundsTheSearch ==
    /\ []C13_CapInvariant
    /\ [][pc = "minimize" => StepsLeft' < StepsLeft]_vars

\* the cap stopped the search in the middle of a pass, tolerances not met
C13_Witness ==
    /\ HasResult
    /\ res_report.status = 1
    /\ Len(calls) = nm.maxfun
    /\ nm.maxfun = MaxFev
    /\ ~Converged(nm)
    /\ nm.iterations >= 2

\* C14: a result that reports no success is told apart from success, the
\* run goes on, and the notebook reads the success flag of the result
\* before it uses res.x for the prediction run.
C14_FlagCheckedBeforeUse ==
    /\ HasResult => res_report.status \in 0..2
    /\ "x" \in res_reads => "success" \in res_reads

\* minimize has been entered and has made no call yet
RunStarted == pc = "minimize" /\ calls = <<>>

\* C21: at the start of every run of minimize, a run started again in the
\* same kernel included, prms and errors are empty and i = 0, so that
\* during a run i is the number of candidates recorded in prms.
C21_RunStartsEmpty ==
    /\ RunStarted => prms = <<>> /\ errors = <<>> /\ i = 0
    /\ pc = "minimize" => i = Len(prms)

\* a call of error_function was made in this step and it returned a value
CallReturned ==
    /\ Len(calls') = Len(calls) + 1
    /\ calls'[Len(calls')].ret.kind = "returned"

\* s is t with records added at its end
IsPrefix(s, t) ==
    /\ Len(s) <= Len(t)
    /\ \A k \in 1..Len(s) : t[k] = s[k]

\* C22: the trajectory is append-only: every call of error_function adds
\* its record at the end of prms and at the end of errors and leaves the
\* earlier records as they were, so the records stand in call order.
C22_AppendOnly ==
    [][CallReturned =>
          /\ prms' = Append(prms, calls'[Len(calls')].prm)
          /\ errors' = Append(errors, calls'[Len(calls')].ret.val)]_vars

\* the part of C22 the code keeps: a call adds its candidate at the end of
\* prms, adds at most its loss at the end of errors, and changes no earlier
\* record of either list
C22_EarlierRecordsKept ==
    [][Len(calls') = Len(calls) + 1 =>
          /\ prms' = Append(prms, calls'[Len(calls')].prm)
          /\ IsPrefix(errors, errors')
          /\ Len(errors') <= Len(errors) + 1]_vars

\* C23: once minimize has returned, prms, errors and i change no more: the
\* prediction run TDS(*res.x) invokes the simulator without recording
\* anything in the trajectory and without counting.
C23_FrozenAfterReturn ==
    [][HasResult => prms' = prms /\ errors' = errors /\ i' = i]_vars

\* the prediction run was made after a search of several calls, and the
\* trajectory holds the calls of the search and nothing else
C23_Witness ==
    /\ pc = "done"
    /\ HasResult
    /\ predicted_data # NoData
    /\ tds_log[Len(tds_log)] = res_x
    /\ Len(calls) >= 3
    /\ Len(prms) = Len(calls)
    /\ i = Len(calls)

\* C24: the point minimize returns is the best point found: it was
\* evaluated in the run, and the loss it was given is res.fun and is less
\* than or equal to the value every call of error_function of the run
\* returned, whether the search ended on its tolerances or on a cap.
C24_ReturnsBestPoint ==
    HasResult =>
        /\ \A k \in 1..Len(calls) : RLeq(res_report.fun, calls[k].ret.val)
        /\ \E k \in 1..Len(calls) :
              calls[k].prm = res_x /\ calls[k].ret.val = res_report.fun

\* the part of C24 the search keeps: a search that ends on its tolerances
\* returns a point of least loss among all the calls of the run
C24_BestOnSuccess ==
    Success =>
        /\ \A k \in 1..Len(calls) : RLeq(res_report.fun, calls[k].ret.val)
        /\ \E k \in 1..Len(calls) :
              calls[k].prm = res_x /\ calls[k].ret.val = res_report.fun

\* a solve converged in this step of the run: the iteration ended
SolveConverged == stepper.status = "solving" /\ stepper'.status = "running"
\* v held to the ceiling of the time t: none while t < 1, then 1
Held(v, t) == IF RLeq(Rat(1), t) /\ RLess(Rat(1), v) THEN Rat(1) ELSE v
\* the run is at its start
AtStart == stepper.status = "running" /\ stepper.t = RZero
\* every step taken from a time t >= 1 had a size of at most 1
CeilingKept ==
    (stepper.status # "idle" /\ stepper.steps >= 1
                             /\ RLeq(Rat(1), stepper.from)) =>
        RLeq(stepper.size, Rat(1))

\* C25, as stated: the step size starts at 0.01, is multiplied by 1.2 after
\* each converged step, has no ceiling while t < 1, and is at most 1 for
\* every step taken at t >= 1.
C25_GrowsAfterEveryConvergedStep ==
    /\ [](AtStart => stepper.dt = <<1, 100>>)
    /\ [][SolveConverged =>
             stepper'.dt = Held(RMul(<<6, 5>>, stepper.dt), stepper.t)]_vars
    /\ []CeilingKept

\* C25, amended: the step size starts at 0.01; after a step whose solve
\* converged in fewer than five iterations it is multiplied by 1.2, after a
\* converged step that took more it is divided by 1.2; it has no ceiling
\* while t < 1 and is held to 1 from t >= 1 on, so that no step taken at
\* t >= 1 exceeds 1; and while the run goes on it is cut so that the next
\* step ends at final_time = 140 at the latest.
C25_StepSizeControl ==
    /\ [](AtStart => stepper.dt = <<1, 100>>)
    /\ [][(SolveConverged /\ RunCondition(stepper.t)) =>
             LET v == IF stepper'.grew THEN RMul(<<6, 5>>, stepper.dt)
                      ELSE RDiv(stepper.dt, <<6, 5>>)
                 h == Held(v, stepper.t)
             IN  stepper'.dt = IF RLess(Rat(140), RAdd(stepper.t, h))
                               THEN RSub(Rat(140), stepper.t)
                               ELSE h]_vars
    /\ []CeilingKept

\* the ceiling has cut a step size that had grown beyond 1 at t >= 1, and
\* elsewhere a slow solve has made the step size smaller
C25_Witness ==
    /\ stepper.status = "running"
    /\ stepper.steps >= 1
    /\ RLeq(Rat(1), stepper.t)
    /\ stepper.grew
    /\ stepper.size = Rat(1)
    /\ stepper.dt = Rat(1)

\* a converged step after which the step size is smaller than before
C25_WitnessSlow ==
    /\ stepper.status = "running"
    /\ stepper.steps >= 1
    /\ ~stepper.grew
    /\ stepper.retries = 0
    /\ RLess(stepper.dt, stepper.size)
    /\ RLess(RAdd(stepper.t, Rat(1)), Rat(140))

\* C26: a run of TDS never takes a step smaller than dt_min: it fails as
\* soon as the step size would fall below dt_min, and otherwise goes on to
\* final_time (the part of the claim about the sizes of the steps; that the
\* run ends is the other part).
C26_NoStepBelowDtMin ==
    /\ (stepper.status \in {"solving", "running", "done"} /\ stepper.steps >= 1)
          => RLeq(dt_min, stepper.size)
    /\ stepper.status \in {"solving", "running"} => RLeq(dt_min, stepper.dt)
    /\ stepper.status = "failed" => RLess(stepper.dt, dt_min)

\* C27: ref is read-only during a run: no call of error_function and no
\* step of the search changes a row of ref, so every loss of the run is
\* the mean absolute difference to the table that was loaded.
C27_RefReadOnly ==
    /\ [][pc = "minimize" => ref' = ref]_vars
    /\ [](\A k \in 1..Len(calls) :
             calls[k].appended =>
                 calls[k].ret.val = MeanAbsError(calls[k].aligned, NMRef))

\* a run of several scored calls, the table being the one that was loaded
C27_Witness ==
    /\ Len(calls) >= 3
    /\ \A k \in 1..3 : calls[k].appended
    /\ calls[1].aligned # calls[2].aligned
    /\ ref = NMRef
    /\ ref = Genfromtxt(file)

\* the latest call ended in a failure of the simulator
FailedInTDS == calls # <<>> /\ LastCall.sim = "raised"

\* C28: when a call of error_function aborts because the simulator fails,
\* prms and errors hold the same number of records, and the failing
\* candidate has been printed before the abort.
C28_ConsistentAfterFailure ==
    FailedInTDS =>
        /\ Len(prms) = Len(errors)
        /\ out # <<>>
        /\ out[Len(out)] = InfoLine(LastCall.reported, LastCall.prm)

\* the part of C28 the code keeps: the failing candidate is the last thing
\* printed, and the last record of prms
C28_FailureReported ==
    FailedInTDS =>
        /\ out # <<>>
        /\ out[Len(out)] = InfoLine(LastCall.reported, LastCall.prm)
        /\ prms[Len(prms)] = LastCall.prm
        /\ pc = "aborted"

\* a candidate with a negative component has been scored and the search has
\* made a call after it
ContinuedAfterInfeasible ==
    \E k \in 1..Len(calls) : HasNegative(calls[k].prm) /\ k < Len(calls)

\* C29: started from a feasible guess, with every feasible loss below the
\* sentinel, minimize returns a feasible point whatever infeasible
\* candidates the simplex proposed; an infeasible candidate never raises
\* and never ends the search.
C29_ReturnedPointFeasible ==
    (/\ calls # <<>>
     /\ Feasible(calls[1].prm)
     /\ \A k \in 1..Len(calls) :
           (Feasible(calls[k].prm) /\ calls[k].ret.kind = "returned")
               => RLess(calls[k].ret.val, Rat(Sentinel)))
    => /\ HasResult => Feasible(res_x)
       /\ \A k \in 1..Len(calls) :
             HasNegative(calls[k].prm)
                 => /\ calls[k].ret.kind = "returned"
                    /\ (k = Len(calls) /\ ~HasResult) => pc = "minimize"

\* the search proposed an infeasible candidate, went on and returned
C29_Witness ==
    /\ HasResult
    /\ ContinuedAfterInfeasible
    /\ Feasible(calls[1].prm)
    /\ Feasible(res_x)

\* the simulator outputs the notebook holds: the reference run and the run
\* of the last call of error_function
OutputsHeld == {data, res} \ {NoData}

\* C30: the generation cell and error_function assemble the observable from
\* a simulator output by the same rule: each sample is minus the sum of the
\* flux on surface 1 and the flux on surface 2, paired with the temperature
\* channel, so the series aligned in the loss is the quantity of the
\* reference.
C30_SameObservable ==
    /\ \A d \in OutputsHeld :
          /\ flux(d) = flux_total(d)
          /\ Len(flux(d)) = Len(FilterT(d))
          /\ \A j \in 1..Len(flux(d)) :
                flux(d)[j] = RNeg(RAdd(FilterFlux(d, 1)[j], FilterFlux(d, 2)[j]))
    /\ (calls # <<>> /\ LastCall.appended)
          => LastCall.aligned
                 = interp_tds(FilterT(res), flux_total(res), Column(ref, 1)).y

\* error_function has scored an output with flux on both surfaces at one
\* sample
C30_Witness ==
    /\ calls # <<>>
    /\ LastCall.appended
    /\ data # NoData
    /\ \E j \in 1..Len(res.T) : res.left[j] # RZero /\ res.right[j] # RZero

====
